---- MODULE Spec2Model ----
(***************************************************************************)
(* Model of main.py: the command-line driver of the customer service       *)
(* chatbot.  main_async asks for a name, loads or creates the user's       *)
(* session in the module-level in-memory session service, runs the         *)
(* read-input / history / agent / refresh loop and finally dumps the       *)
(* session state.                                                          *)
(*                                                                         *)
(* Text is a sequence of one-character strings, so that strip(), lower()   *)
(* and the f-string concatenations are computed as the code computes them. *)
(* The session service is the library's dictionary of sessions; each of    *)
(* its get_session calls may answer with the stored session, raise         *)
(* SessionNotFoundError, raise another exception or return None, which are *)
(* the four outcomes main.py distinguishes.                                *)
(***************************************************************************)
EXTENDS Integers, Sequences, FiniteSets, TLC

\* ---------------------------------------------------------------- bounds

\* Number of times main_async is run against the same session service.
MaxRuns == 2
\* Number of non-exit inputs read, over all runs.
MaxTurns == 2
\* Number of in-place appends to a handed-out initial state (SharedSpec).
MaxAppends == 1

\* ------------------------------------------------------------------ text

Upper == <<"A","B","C","D","E","F","G","H","I","J","K","L","M",
           "N","O","P","Q","R","S","T","U","V","W","X","Y","Z">>
Lowers == <<"a","b","c","d","e","f","g","h","i","j","k","l","m",
            "n","o","p","q","r","s","t","u","v","w","x","y","z">>
Whitespace == {" ", "\t", "\n"}

\* str.lower(), one character
LowerChar(c) ==
    IF \E i \in 1..Len(Upper) : Upper[i] = c
    THEN Lowers[CHOOSE i \in 1..Len(Upper) : Upper[i] = c]
    ELSE c

\* str.lower()
Lower(s) == [i \in 1..Len(s) |-> LowerChar(s[i])]

\* str.lstrip() / str.rstrip() / str.strip()
RECURSIVE LStrip(_)
LStrip(s) ==
    IF s # <<>> /\ Head(s) \in Whitespace THEN LStrip(Tail(s)) ELSE s
RECURSIVE RStrip(_)
RStrip(s) ==
    IF s # <<>> /\ s[Len(s)] \in Whitespace
    THEN RStrip(SubSeq(s, 1, Len(s) - 1)) ELSE s
Strip(s) == RStrip(LStrip(s))

\* ------------------------------------------------------------- constants

APP_NAME == "Customer Support"
Guest == <<"G","u","e","s","t">>
GuestErrorPrefix == <<"G","u","e","s","t","_","E","r","r","o","r","_">>
MainSessionSuffix == <<"_","m","a","i","n","_","s","e","s","s","i","o","n">>
ExitWords == { <<"e","x","i","t">>, <<"q","u","i","t">> }

\* k of random.choices(..., k=6)
SuffixLen == 6
\* The suffixes session_service._generate_id() or random.choices may return:
\* strings of SuffixLen characters out of ascii_lowercase + digits.
Alphabet == {"a", "7"}
Suffixes == { [i \in 1..SuffixLen |-> c] : c \in Alphabet }

\* What the user may type at the name prompt: nothing but whitespace, a
\* padded name, and a name that has the form of a guest id.
NameInputs ==
    { <<" ", "\t">>,
      <<" ", "a", "l", " ">>,
      GuestErrorPrefix \o [i \in 1..SuffixLen |-> "a"] }

\* What the user may type at the conversation prompt: the two exit words in
\* mixed case, and a query (which lower() alone does not turn into one).
Inputs ==
    { <<"E","x","i","t">>,
      <<"Q","U","I","T">>,
      <<"q","u","i","t"," ">> }

\* What the agent run may do to the session it is run against.
AgentEffects == {"none", "purchase", "delete"}
\* How a get_session call may misbehave: not at all, raise, return None.
Faults == {"ok", "error", "none"}

\* ----------------------------------------------------------------- state

VARIABLES
    store,            \* session_service: key -> state of the stored session
    template,         \* initial_state_template (its lists are references)
    heap,             \* the list objects: reference -> contents
    handed,           \* the user_initial_state dicts handed to create_session
    appends,          \* in-place appends made to handed-out dicts
    pc,               \* where main_async is
    run,              \* which run of main_async this is
    turns,            \* non-exit inputs read so far
    current_user_name,\* the name entered, stripped or defaulted
    USER_ID,
    SESSION_ID,
    current_session,  \* the Session object held, or NoSession (None)
    user_input,       \* the last line read in the loop
    path,             \* which branch of PART 3 was taken
    log,              \* the inputs read and the library calls made, this run
    printed           \* what PART 6 printed

vars == <<store, template, heap, handed, appends, pc, run, turns,
          current_user_name, USER_ID, SESSION_ID, current_session,
          user_input, path, log, printed>>

NoSession == [none |-> TRUE]
NoText == <<>>
NothingPrinted == [kind |-> "nothing", state |-> <<>>]

\* ------------------------------------------------------- session service

Key(uid, sid) == <<APP_NAME, uid, sid>>

\* The outcome of session_service.get_session under fault f.
GetOutcome(st, uid, sid, f) ==
    IF f # "ok" THEN f
    ELSE IF Key(uid, sid) \in DOMAIN st THEN "ok" ELSE "notfound"

\* The Session object get_session returns (a copy of the stored one).
GetSession(st, uid, sid) == [id |-> sid, state |-> st[Key(uid, sid)]]

\* session_service.create_session: sessions[app][user][session_id] = session
CreateSession(st, uid, sid, state) ==
    [k \in DOMAIN st \cup {Key(uid, sid)} |->
        IF k = Key(uid, sid) THEN state ELSE st[k]]

\* The session removed from the service.
DeleteSession(st, uid, sid) ==
    [k \in DOMAIN st \ {Key(uid, sid)} |-> st[k]]

\* A state dict with its list references replaced by the lists' contents.
Deref(d) ==
    [user_name |-> d.user_name,
     purchased_courses |-> heap[d.purchased_courses],
     interaction_history |-> heap[d.interaction_history]]

Event(op, uid, sid, arg, res) ==
    [op |-> op, user |-> uid, sid |-> sid, arg |-> arg, res |-> res]

\* ------------------------------------------------------------- main_async

\* SESSION_ID = f"{USER_ID}_main_session"
SessionIdOf(uid) == uid \o MainSessionSuffix

\* USER_ID = f"Guest_Error_{error_id_suffix}"
GuestUserId(suffix) == GuestErrorPrefix \o suffix

\* current_user_name from the line typed at the name prompt
UserNameOf(inp) == IF Strip(inp) = <<>> THEN Guest ELSE Strip(inp)

\* Mutant: the copy of the template is handed over without line 56's
\* assignment of the user name.
UserInitialState_NoName(uid) == template

\* user_initial_state = initial_state_template.copy()
\* user_initial_state["user_name"] = USER_ID
\* dict.copy() is shallow: the new dict holds the template's list objects.
UserInitialState(uid) == [template EXCEPT !.user_name = uid]

\* Mutant: the comparison without .lower().
IsExit_CaseSensitive(text) == text \in ExitWords

\* user_input.lower() in ["exit", "quit"]
IsExit(text) == Lower(text) \in ExitWords

Init ==
    /\ store = <<>>
    /\ template = [user_name |-> NoText,
                   purchased_courses |-> "list1",
                   interaction_history |-> "list2"]
    /\ heap = [r \in {"list1", "list2"} |-> <<>>]
    /\ handed = {}
    /\ appends = 0
    /\ pc = "start"
    /\ run = 1
    /\ turns = 0
    /\ current_user_name = NoText
    /\ USER_ID = NoText
    /\ SESSION_ID = NoText
    /\ current_session = NoSession
    /\ user_input = NoText
    /\ path = "none"
    /\ log = <<>>
    /\ printed = NothingPrinted

\* Lines 29-40: read the name, default it, derive USER_ID and SESSION_ID.
ReadName(inp) ==
    /\ pc = "start"
    /\ current_user_name' = UserNameOf(inp)
    /\ USER_ID' = UserNameOf(inp)
    /\ SESSION_ID' = SessionIdOf(UserNameOf(inp))
    /\ pc' = "session"
    /\ UNCHANGED <<store, template, heap, handed, appends, run, turns,
                   current_session, user_input, path, log, printed>>

\* Mutant: the session found is created again from the template.
LoadSession_Recreates ==
    /\ pc = "session"
    /\ GetOutcome(store, USER_ID, SESSION_ID, "ok") = "ok"
    /\ LET init == UserInitialState(USER_ID)
           new == CreateSession(store, USER_ID, SESSION_ID, Deref(init))
       IN /\ store' = new
          /\ current_session' = GetSession(new, USER_ID, SESSION_ID)
    /\ log' = Append(log, Event("get_session", USER_ID, SESSION_ID, NoText, "ok"))
    /\ path' = "loaded"
    /\ pc' = "loop"
    /\ UNCHANGED <<template, heap, handed, appends, run, turns,
                   current_user_name, USER_ID, SESSION_ID, user_input, printed>>

\* Lines 44-51: get_session returned the existing session.
LoadSession ==
    /\ pc = "session"
    /\ GetOutcome(store, USER_ID, SESSION_ID, "ok") = "ok"
    /\ current_session' = GetSession(store, USER_ID, SESSION_ID)
    /\ log' = Append(log, Event("get_session", USER_ID, SESSION_ID, NoText, "ok"))
    /\ path' = "loaded"
    /\ pc' = "loop"
    /\ UNCHANGED <<store, template, heap, handed, appends, run, turns,
                   current_user_name, USER_ID, SESSION_ID, user_input, printed>>

\* Lines 52-65: get_session raised SessionNotFoundError.
CreateNewSession ==
    /\ pc = "session"
    /\ GetOutcome(store, USER_ID, SESSION_ID, "ok") = "notfound"
    /\ LET init == UserInitialState(USER_ID)
           new == CreateSession(store, USER_ID, SESSION_ID, Deref(init))
       IN /\ store' = new
          /\ handed' = handed \cup {init}
          /\ current_session' = GetSession(new, USER_ID, SESSION_ID)
          /\ log' = log \o
                 <<Event("get_session", USER_ID, SESSION_ID, NoText, "notfound"),
                   Event("create_session", USER_ID, SESSION_ID, Deref(init), "ok")>>
    /\ path' = "created"
    /\ pc' = "loop"
    /\ UNCHANGED <<template, heap, appends, run, turns, current_user_name,
                   USER_ID, SESSION_ID, user_input, printed>>

\* Lines 66-90: get_session raised something else, or returned None so that
\* line 50 raised AttributeError.
ErrorFallback(f, suffix) ==
    /\ pc = "session"
    /\ f # "ok"
    /\ LET uid == GuestUserId(suffix)
           sid == SessionIdOf(uid)
           init == UserInitialState(uid)
           new == CreateSession(store, uid, sid, Deref(init))
       IN /\ USER_ID' = uid
          /\ SESSION_ID' = sid
          /\ store' = new
          /\ handed' = handed \cup {init}
          /\ current_session' = GetSession(new, uid, sid)
          /\ log' = log \o
                 <<Event("get_session", USER_ID, SESSION_ID, NoText,
                         GetOutcome(store, USER_ID, SESSION_ID, f)),
                   Event("create_session", uid, sid, Deref(init), "ok")>>
    /\ path' = "fallback"
    /\ pc' = "loop"
    /\ UNCHANGED <<template, heap, appends, run, turns, current_user_name,
                   user_input, printed>>

\* utils.add_user_query_to_history: the user's query is appended to the
\* interaction_history of the named session.
AddUserQueryToHistory(st, uid, sid, text) ==
    IF Key(uid, sid) \in DOMAIN st
    THEN [st EXCEPT ![Key(uid, sid)].interaction_history =
              Append(@, [action |-> "user_query", query |-> text])]
    ELSE st

\* utils.call_agent_async: the runner runs the agent against the named
\* session; the agent may leave the state alone, record a purchase, or the
\* session may be gone when it returns.
AgentRun(st, uid, sid, effect) ==
    IF Key(uid, sid) \notin DOMAIN st THEN st
    ELSE IF effect = "purchase"
         THEN [st EXCEPT ![Key(uid, sid)].purchased_courses =
                   Append(@, "course")]
    ELSE IF effect = "delete" THEN DeleteSession(st, uid, sid)
    ELSE st

\* Lines 108-123: one line is read; exit/quit leaves the loop, anything else
\* is added to the interaction history of the current session.
ReadInput(text) ==
    /\ pc = "loop"
    /\ user_input' = text
    /\ IF IsExit(text)
       THEN /\ pc' = "final"
            /\ log' = Append(log, Event("input", USER_ID, SESSION_ID, text, "ok"))
            /\ UNCHANGED <<store, turns>>
       ELSE /\ turns < MaxTurns
            /\ turns' = turns + 1
            /\ store' = AddUserQueryToHistory(store, USER_ID,
                                              current_session.id, text)
            /\ log' = log \o
                   <<Event("input", USER_ID, SESSION_ID, text, "ok"),
                     Event("add_user_query_to_history", USER_ID,
                           current_session.id, text, "ok")>>
            /\ pc' = "agent"
    /\ UNCHANGED <<template, heap, handed, appends, run, current_user_name,
                   USER_ID, SESSION_ID, current_session, path, printed>>

\* Mutant: the agent is called with the name entered, not with USER_ID.
CallAgent_EnteredName(effect) ==
    /\ pc = "agent"
    /\ store' = AgentRun(store, current_user_name, current_session.id, effect)
    /\ log' = Append(log, Event("call_agent_async", current_user_name,
                                current_session.id, user_input, "ok"))
    /\ pc' = "refresh"
    /\ UNCHANGED <<template, heap, handed, appends, run, turns,
                   current_user_name, USER_ID, SESSION_ID, current_session,
                   user_input, path, printed>>

\* Lines 125-126: await call_agent_async(runner, USER_ID, active_session_id,
\* user_input)
CallAgent(effect) ==
    /\ pc = "agent"
    /\ store' = AgentRun(store, USER_ID, current_session.id, effect)
    /\ log' = Append(log, Event("call_agent_async", USER_ID,
                                current_session.id, user_input, "ok"))
    /\ pc' = "refresh"
    /\ UNCHANGED <<template, heap, handed, appends, run, turns,
                   current_user_name, USER_ID, SESSION_ID, current_session,
                   user_input, path, printed>>

\* Mutant: an exception raised by the refresh is swallowed and the loop
\* goes on with the session held.
RefreshSession_Continues(f) ==
    /\ pc = "refresh"
    /\ LET out == GetOutcome(store, USER_ID, current_session.id, f)
       IN /\ log' = Append(log, Event("get_session", USER_ID,
                                      current_session.id, NoText, out))
          /\ current_session' =
                 IF out = "ok"
                 THEN GetSession(store, USER_ID, current_session.id)
                 ELSE IF out = "none" THEN NoSession
                 ELSE current_session
          /\ pc' = IF out = "none" THEN "final" ELSE "loop"
    /\ UNCHANGED <<store, template, heap, handed, appends, run, turns,
                   current_user_name, USER_ID, SESSION_ID, user_input, path,
                   printed>>

\* Mutant: the loop is left after the refresh whatever it returned.
RefreshSession_AlwaysBreaks(f) ==
    /\ pc = "refresh"
    /\ LET out == GetOutcome(store, USER_ID, current_session.id, f)
       IN /\ log' = Append(log, Event("get_session", USER_ID,
                                      current_session.id, NoText, out))
          /\ current_session' =
                 IF out = "ok"
                 THEN GetSession(store, USER_ID, current_session.id)
                 ELSE IF out = "none" THEN NoSession
                 ELSE current_session
          /\ pc' = "final"
    /\ UNCHANGED <<store, template, heap, handed, appends, run, turns,
                   current_user_name, USER_ID, SESSION_ID, user_input, path,
                   printed>>

\* Lines 128-143: the session is fetched again; a raise leaves
\* current_session as it was and ends the loop, None is assigned and ends
\* the loop.
RefreshSession(f) ==
    /\ pc = "refresh"
    /\ LET out == GetOutcome(store, USER_ID, current_session.id, f)
       IN /\ log' = Append(log, Event("get_session", USER_ID,
                                      current_session.id, NoText, out))
          /\ current_session' =
                 IF out = "ok"
                 THEN GetSession(store, USER_ID, current_session.id)
                 ELSE IF out = "none" THEN NoSession
                 ELSE current_session
          /\ pc' = IF out = "ok" THEN "loop" ELSE "final"
    /\ UNCHANGED <<store, template, heap, handed, appends, run, turns,
                   current_user_name, USER_ID, SESSION_ID, user_input, path,
                   printed>>

\* Mutant: the state of the session object held is printed, not the state
\* of the session fetched.
FinalExamination_PrintsHeld(f) ==
    /\ pc = "final"
    /\ IF current_session # NoSession
       THEN LET out == GetOutcome(store, USER_ID, current_session.id, f)
            IN /\ log' = Append(log, Event("get_session", USER_ID,
                                           current_session.id, NoText, out))
               /\ printed' =
                      IF out = "ok"
                      THEN [kind |-> "state", state |-> current_session.state]
                      ELSE IF out = "notfound"
                      THEN [kind |-> "could_not_retrieve", state |-> <<>>]
                      ELSE [kind |-> "error_retrieving", state |-> <<>>]
       ELSE /\ f = "ok"
            /\ log' = log
            /\ printed' = [kind |-> "no_active_session", state |-> <<>>]
    /\ pc' = "done"
    /\ UNCHANGED <<store, template, heap, handed, appends, run, turns,
                   current_user_name, USER_ID, SESSION_ID, current_session,
                   user_input, path>>

\* Lines 145-161: the final state dump.  A final_session of None raises
\* AttributeError at line 154, which the last handler reports.
FinalExamination(f) ==
    /\ pc = "final"
    /\ IF current_session # NoSession
       THEN LET out == GetOutcome(store, USER_ID, current_session.id, f)
            IN /\ log' = Append(log, Event("get_session", USER_ID,
                                           current_session.id, NoText, out))
               /\ printed' =
                      IF out = "ok"
                      THEN [kind |-> "state",
                            state |-> GetSession(store, USER_ID,
                                                 current_session.id).state]
                      ELSE IF out = "notfound"
                      THEN [kind |-> "could_not_retrieve", state |-> <<>>]
                      ELSE [kind |-> "error_retrieving", state |-> <<>>]
       ELSE /\ f = "ok"
            /\ log' = log
            /\ printed' = [kind |-> "no_active_session", state |-> <<>>]
    /\ pc' = "done"
    /\ UNCHANGED <<store, template, heap, handed, appends, run, turns,
                   current_user_name, USER_ID, SESSION_ID, current_session,
                   user_input, path>>

\* Lines 164-166 and 14: main_async is run again; the module-level
\* session_service and initial_state_template are the same objects.
RunAgain ==
    /\ pc = "done"
    /\ run < MaxRuns
    /\ run' = run + 1
    /\ pc' = "start"
    /\ current_user_name' = NoText
    /\ USER_ID' = NoText
    /\ SESSION_ID' = NoText
    /\ current_session' = NoSession
    /\ user_input' = NoText
    /\ path' = "none"
    /\ log' = <<>>
    /\ printed' = NothingPrinted
    /\ UNCHANGED <<store, template, heap, handed, appends, turns>>

\* Lines 55-63 and 82-88: the holder of a handed-out user_initial_state
\* appends in place to one of its lists; the element names the dict's owner.
AppendInPlace(d, field) ==
    /\ appends < MaxAppends
    /\ appends' = appends + 1
    /\ heap' = [heap EXCEPT ![d[field]] = Append(@, d.user_name)]
    /\ UNCHANGED <<store, template, handed, pc, run, turns,
                   current_user_name, USER_ID, SESSION_ID, current_session,
                   user_input, path, log, printed>>

Next ==
    \/ \E inp \in NameInputs : ReadName(inp)
    \/ LoadSession
    \/ CreateNewSession
    \/ \E f \in Faults, s \in Suffixes : ErrorFallback(f, s)
    \/ \E text \in Inputs : ReadInput(text)
    \/ \E effect \in AgentEffects : CallAgent(effect)
    \/ \E f \in Faults : RefreshSession(f)
    \/ \E f \in Faults : FinalExamination(f)
    \/ RunAgain

Spec == Init /\ [][Next]_vars

\* The same program, with holders of the handed-out initial states that
\* append to them in place.
SharedNext ==
    \/ Next
    \/ \E d \in handed, field \in {"purchased_courses", "interaction_history"} :
           AppendInPlace(d, field)

SharedSpec == Init /\ [][SharedNext]_vars

\* The program keeps running: every step other than the user's typing is
\* taken once it is enabled.
LiveSpec ==
    /\ Spec
    /\ WF_vars(LoadSession \/ CreateNewSession
               \/ \E f \in Faults, s \in Suffixes : ErrorFallback(f, s))
    /\ WF_vars(\E effect \in AgentEffects : CallAgent(effect))
    /\ WF_vars(\E f \in Faults : RefreshSession(f))
    /\ WF_vars(\E f \in Faults : FinalExamination(f))

\* ---------------------------------------------------------------- claims

\* The conversation inputs whose lower-cased text is exit or quit.
ExitTyped == { <<"E","x","i","t">>, <<"Q","U","I","T">> }

DefaultState(uid) ==
    [user_name |-> uid, purchased_courses |-> <<>>, interaction_history |-> <<>>]

CreateEvents == { i \in 1..Len(log) : log[i].op = "create_session" }
QueryInputs ==
    { i \in 1..Len(log) : log[i].op = "input" /\ log[i].arg \notin ExitTyped }
AgentCalls == { i \in 1..Len(log) : log[i].op = "call_agent_async" }
HistoryCalls == { i \in 1..Len(log) : log[i].op = "add_user_query_to_history" }
\* The get_session calls that refresh the session after an agent call.
Refreshes ==
    { i \in 2..Len(log) :
        log[i].op = "get_session" /\ log[i-1].op = "call_agent_async" }
FailedRefreshes == { i \in Refreshes : log[i].res # "ok" }

\* What holds at the first prompt of a run whose initial lookup was answered
\* with not-found.
C1_AtLoop ==
    (pc = "loop" /\ Len(log) = 2 /\ log[1].res = "notfound") =>
        /\ USER_ID = current_user_name
        /\ SESSION_ID = USER_ID \o MainSessionSuffix
        /\ log[1] = Event("get_session", USER_ID, SESSION_ID, NoText, "notfound")
        /\ log[2] = Event("create_session", USER_ID, SESSION_ID,
                          DefaultState(USER_ID), "ok")
        /\ Key(USER_ID, SESSION_ID) \in DOMAIN store
        /\ DOMAIN store[Key(USER_ID, SESSION_ID)] =
               {"user_name", "purchased_courses", "interaction_history"}
        /\ store[Key(USER_ID, SESSION_ID)] = DefaultState(USER_ID)
        /\ current_session = [id |-> SESSION_ID, state |-> DefaultState(USER_ID)]
\* C1: a first run for a new user id creates the session.  When the
\* service answers the initial lookup of (Customer Support, U, U_main_session)
\* with not-found, the step that reaches the loop adds exactly that key to
\* the store, and on reaching the loop the session's state has exactly the
\* three default keys, user_name = U and both lists empty.
C1_FirstRunSeedsDefaults ==
    /\ []C1_AtLoop
    /\ [][(pc = "session" /\ Key(USER_ID, SESSION_ID) \notin DOMAIN store
           /\ log'[1].res = "notfound")
          => /\ pc' = "loop"
             /\ DOMAIN store' = DOMAIN store \cup {Key(USER_ID, SESSION_ID)}
             /\ \A k \in DOMAIN store : store'[k] = store[k]]_vars
C1_Witness ==
    /\ pc = "loop" /\ Len(log) = 2 /\ path = "created"
    /\ USER_ID = <<"a", "l">>
    /\ store[Key(USER_ID, SESSION_ID)] = DefaultState(<<"a", "l">>)

\* C2: a second run with the same user id reloads the same session.  When
\* the store already holds a session of user U and the initial lookup does
\* not fail, the run holds that session under its stored id, creates
\* nothing and leaves the stored state, interaction history included, as it
\* was.
C2_SecondRunReloads ==
    [][(/\ pc = "session"
        /\ \E k \in DOMAIN store : k[2] = USER_ID
        /\ log'[1].res \in {"ok", "notfound"})
       => /\ pc' = "loop"
          /\ path' = "loaded"
          /\ store' = store
          /\ handed' = handed
          /\ Len(log') = 1
          /\ \E k \in DOMAIN store :
                /\ k[2] = USER_ID
                /\ current_session' = [id |-> k[3], state |-> store[k]]]_vars
C2_Witness ==
    /\ run >= 2 /\ pc = "loop" /\ path = "loaded" /\ Len(log) = 1
    /\ current_session.state.interaction_history # <<>>
    /\ current_session.state = store[Key(USER_ID, SESSION_ID)]

\* C3: an input whose lower-cased text is exit or quit ends the loop in that
\* iteration: the step that reads it goes to the final examination, logs
\* nothing but the input and leaves the store (so the interaction history)
\* unchanged; after it the run reads no input, updates no history and calls
\* no agent, the only later call being the final fetch.
C3_ExitEndsLoop ==
    /\ [][(pc = "loop" /\ user_input' \in ExitTyped)
          => /\ pc' = "final"
             /\ store' = store
             /\ log' = Append(log, Event("input", USER_ID, SESSION_ID,
                                         user_input', "ok"))]_vars
    /\ [](\A i \in 1..Len(log) :
            (log[i].op = "input" /\ log[i].arg \in ExitTyped) =>
                /\ pc \in {"final", "done"}
                /\ \A j \in (i+1)..Len(log) :
                      log[j].op = "get_session" /\ j = i + 1)
C3_Witness ==
    /\ pc = "done" /\ user_input = <<"Q","U","I","T">> /\ turns >= 1
    /\ Len(log) >= 2 /\ log[Len(log) - 1].arg = <<"Q","U","I","T">>

\* C4: when the initial get_session fails with anything but not-found, the
\* program creates one session, whose user id is Guest_Error_<suffix>, whose
\* session id is that user id followed by _main_session and whose user_name
\* is that user id; it creates no session under the name the user entered;
\* every later history update, agent call and refresh uses the guest ids.
C4_FallbackUsesGuestIds ==
    (path = "fallback") =>
        /\ Len(USER_ID) > Len(GuestErrorPrefix)
        /\ SubSeq(USER_ID, 1, Len(GuestErrorPrefix)) = GuestErrorPrefix
        /\ SESSION_ID = USER_ID \o MainSessionSuffix
        /\ log[1].op = "get_session" /\ log[1].res \in {"error", "none"}
        /\ CreateEvents = {2}
        /\ log[2].user = USER_ID /\ log[2].sid = SESSION_ID
        /\ log[2].arg.user_name = USER_ID
        /\ \A i \in CreateEvents : log[i].user # current_user_name
        /\ \A i \in 3..Len(log) : log[i].user = USER_ID /\ log[i].sid = SESSION_ID

\* C5: a failed refresh ends the loop.  A refresh that raises not-found,
\* raises anything else or returns no session is followed by no input, no
\* history update and no agent call, only by the final fetch, and the loop
\* never starts or continues an iteration without a current session.
C5_RefreshFailureEndsLoop ==
    /\ pc \in {"loop", "agent", "refresh"} => current_session # NoSession
    /\ \A i \in FailedRefreshes :
          /\ pc \in {"final", "done"}
          /\ \A j \in (i+1)..Len(log) : log[j].op = "get_session" /\ j = i + 1
C5_Witness ==
    /\ pc = "done"
    /\ \E i \in FailedRefreshes : log[i].res = "notfound"
    /\ turns >= 2

\* C6: the guest session chosen by the error fallback is unique: the step
\* that takes the fallback creates a session whose key is not yet in the
\* store.
C6_FallbackIdIsFresh ==
    [][(pc = "session" /\ path' = "fallback")
       => Key(USER_ID', SESSION_ID') \notin DOMAIN store]_vars

\* C7: every input that is not exit/quit gets exactly one history update
\* and then exactly one agent call, both with the current user id, the
\* current session's id and that input, and then exactly one refresh; no
\* history update or agent call happens otherwise, so that between
\* iterations the agent calls are as many as the non-exit inputs read.
C7_OneAgentCallPerInput ==
    LET n == Len(log) IN
    /\ \A i \in QueryInputs :
          /\ i + 1 <= n
          /\ log[i+1] = Event("add_user_query_to_history", USER_ID,
                              SESSION_ID, log[i].arg, "ok")
          /\ i + 2 <= n =>
                log[i+2] = Event("call_agent_async", USER_ID, SESSION_ID,
                                 log[i].arg, "ok")
          /\ i + 3 <= n =>
                /\ log[i+3].op = "get_session"
                /\ log[i+3].user = USER_ID /\ log[i+3].sid = SESSION_ID
          /\ i + 4 <= n => log[i+4].op \in {"input", "get_session"}
          /\ pc = "refresh" => i + 2 <= n
          /\ pc \in {"loop", "final", "done"} => i + 3 <= n
    /\ \A j \in HistoryCalls : j - 1 \in QueryInputs
    /\ \A j \in AgentCalls : j - 2 \in QueryInputs
    /\ \A j \in Refreshes : j - 3 \in QueryInputs
    /\ pc \in {"start", "session", "loop", "refresh", "final", "done"} =>
          Cardinality(AgentCalls) = Cardinality(QueryInputs)
    /\ pc \in {"agent", "refresh"} => current_session.id = SESSION_ID
C7_Witness ==
    /\ pc = "loop" /\ Cardinality(AgentCalls) = 2
    /\ path = "fallback"
    /\ \E i \in QueryInputs : log[i].arg = <<"q","u","i","t"," ">>

\* C8: the loop ends only on exit/quit or on a failed refresh: a non-exit
\* input starts an iteration, a refresh that returns a session goes back to
\* the prompt, the loop is left only after an exit input or a failed
\* refresh; and once the loop is left the final examination is made and the
\* run terminates.
C8_LoopEndsOnlyOnExitOrError ==
    /\ [](pc \in {"final", "done"} =>
            \/ FailedRefreshes # {}
            \/ \E i \in 1..Len(log) :
                  log[i].op = "input" /\ log[i].arg \in ExitTyped)
    /\ [][(pc = "loop" /\ user_input' \notin ExitTyped) => pc' = "agent"]_vars
    /\ [][(pc = "refresh" /\ log'[Len(log')].res = "ok") => pc' = "loop"]_vars
    /\ (pc = "agent") ~> (pc \in {"loop", "final"})
    /\ (pc = "final") ~> (pc = "done" /\ printed # NothingPrinted)
C8_Witness ==
    /\ pc = "done" /\ user_input \in ExitTyped /\ turns >= 2
    /\ FailedRefreshes = {} /\ printed.kind = "state"

\* The final fetch: the get_session call made after the loop has ended.
FinalFetches ==
    { i \in 2..Len(log) :
        /\ i = Len(log)
        /\ log[i].op = "get_session"
        /\ log[i-1].op \in {"input", "get_session"} }
ReturnedNone == { i \in Refreshes : log[i].res = "none" }

\* What the final examination prints after the fetch logged at i.
C9_Dump(i) ==
    /\ log[i].user = USER_ID /\ log[i].sid = SESSION_ID
    /\ current_session.id = SESSION_ID
    /\ log[i].res = "ok" =>
          /\ Key(USER_ID, SESSION_ID) \in DOMAIN store
          /\ printed = [kind |-> "state",
                        state |-> store[Key(USER_ID, SESSION_ID)]]
    /\ log[i].res = "notfound" => printed.kind = "could_not_retrieve"
    /\ log[i].res \in {"error", "none"} => printed.kind = "error_retrieving"

\* C9 as claimed: after the loop ends, for whichever reason, the program
\* fetches the session again by the current user id and the id of the
\* session it holds and prints its state as stored, or reports the failed
\* fetch.
C9_AlwaysDumps ==
    pc = "done" => (FinalFetches # {} /\ \A i \in FinalFetches : C9_Dump(i))

\* C9 as amended: the same, except that when the loop ended because the
\* refresh returned no session there is no session to examine: the program
\* fetches nothing and says so; the final examination never changes the
\* store.
C9_DumpsUnlessNoSession ==
    /\ [](pc = "done" =>
            IF ReturnedNone # {}
            THEN /\ FinalFetches = {}
                 /\ printed.kind = "no_active_session"
            ELSE /\ FinalFetches # {}
                 /\ \A i \in FinalFetches : C9_Dump(i))
    /\ [][pc = "final" => (pc' = "done" /\ store' = store)]_vars
C9_Witness ==
    /\ pc = "done" /\ printed.kind = "state"
    /\ \E i \in FailedRefreshes : log[i].res = "error"
    /\ printed.state.purchased_courses # <<>>

\* C10: creating sessions never changes initial_state_template, and the
\* initial states handed to sessions are independent: whatever is appended
\* to the lists of one of them shows neither in the template nor in the
\* lists of another.
C10_TemplateAndStatesIndependent ==
    /\ Deref(template) = DefaultState(NoText)
    /\ \A d \in handed :
          /\ \A i \in 1..Len(heap[d.purchased_courses]) :
                heap[d.purchased_courses][i] = d.user_name
          /\ \A i \in 1..Len(heap[d.interaction_history]) :
                heap[d.interaction_history][i] = d.user_name

====
